---- MODULE Spec2Model ----
(***************************************************************************)
(* clib-search: the search command of clib (src/clib-search.c).            *)
(*                                                                         *)
(* C strings are sequences of one-character strings; a NULL char* is the   *)
(* value NULL, which no C string equals.  The model has three entry        *)
(* points, chosen by the initial value of pc: main(); the static function  *)
(* matches() on its own, over a wider range of records and terms than the  *)
(* runs of main go through; and the static function wiki_html_cache(),     *)
(* which main no longer calls (its call site is inside the comment at      *)
(* lines 180-191).                                                         *)
(***************************************************************************)
EXTENDS Integers, Sequences, FiniteSets, TLC

VARIABLES
    pc,            \* position in main() / in the caller of wiki_html_cache()
    opt_cache,     \* static int opt_cache
    opt_json,      \* static int opt_json
    argv0,         \* the positional arguments as typed (history)
    program_argv,  \* program.argv, lowercased in place by main
    cache,         \* the "search" cache entry: NULL when there is none
    registry,      \* the packages of the fetched registry, in order
    fetch_ok,      \* what wiki_registry_fetch returned (main drops it)
    it,            \* number of packages the iterator has yielded
    rcs,           \* what matches() returned for each yielded package (history)
    json_list,     \* JSON_Array *json_list
    stdout,        \* what was written to standard output, in order
    exit_code,     \* the exit status of main, NULL while it runs
    data,          \* wiki_html_cache's local: what the last cache read gave
    html,          \* what the last call of wiki_html_cache() returned
    calls,         \* fetch attempts: registry fetches and wiki_html_cache calls
    netFetches,    \* live network requests issued
    cacheReads     \* calls of clib_cache_read_search

vars == <<pc, opt_cache, opt_json, argv0, program_argv, cache, registry,
          fetch_ok, it, rcs, json_list, stdout, exit_code, data, html,
          calls, netFetches, cacheReads>>

-----------------------------------------------------------------------------
(* Bounds *)

MaxPkgs == 2

MaxArgs == 2

MaxCalls == 2

-----------------------------------------------------------------------------
(* Values *)

NULL == <<"NULL">>

JSON_NULL == [type |-> "null"]

\* Field values of a package record; every field may be absent, the
\* description may be empty, the repo may have no owner.
RepoVals == {NULL, <<"O", "/", "n">>, <<"n">>}

DescVals == {NULL, <<"D", "x">>, <<>>}

HrefVals == {NULL, <<"H", "t">>}

CatVals == {NULL, <<"C">>}

Packages == [repo : RepoVals, href : HrefVals,
             description : DescVals, category : CatVals]

\* The records a fetched registry is made of in the runs of main: two with
\* every field matches() reads, one without description, one without repo.
RegistryPackages ==
    {[repo |-> <<"O", "/", "n">>, href |-> <<"H", "t">>,
      description |-> <<"D", "x">>, category |-> <<"C">>],
     [repo |-> <<"n">>, href |-> <<"H", "t">>,
      description |-> <<>>, category |-> NULL],
     [repo |-> <<"O", "/", "n">>, href |-> <<"H", "t">>,
      description |-> NULL, category |-> <<"C">>],
     [repo |-> NULL, href |-> <<"H", "t">>,
      description |-> <<"D", "x">>, category |-> <<"C">>]}

\* Positional arguments as the user may type them.
ArgVals == {<<"n">>, <<"d", "X">>, <<"q">>}

\* Query terms as matches() receives them: in the name and the repo, in the
\* repo only, in the description, in no field (the description reversed),
\* in the href, and the empty term.
Terms == {<<"n">>, <<"o", "/">>, <<"d", "x">>, <<"x", "d">>, <<"t">>, <<>>}

\* What a cache entry left by an earlier run holds, and what the wiki serves.
CachePayloads == {<<"p">>}

WikiPayloads == {<<"w">>}

SeqsUpTo(S, n) == UNION {[1..k -> S] : k \in 0..n}

-----------------------------------------------------------------------------
(* Library functions the command calls *)

UpperLetters == <<"A", "B", "C", "D", "E", "F", "G", "H", "I", "J", "K", "L", "M",
                  "N", "O", "P", "Q", "R", "S", "T", "U", "V", "W", "X", "Y", "Z">>

LowerLetters == <<"a", "b", "c", "d", "e", "f", "g", "h", "i", "j", "k", "l", "m",
                  "n", "o", "p", "q", "r", "s", "t", "u", "v", "w", "x", "y", "z">>

LowerOf ==
    [c \in {UpperLetters[i] : i \in 1..Len(UpperLetters)} |->
        LowerLetters[CHOOSE i \in 1..Len(UpperLetters) : UpperLetters[i] = c]]

tolower(c) == IF c \in DOMAIN LowerOf THEN LowerOf[c] ELSE c

\* case_lower(v): every character of v lowercased (in place in the code).
case_lower(v) == [i \in 1..Len(v) |-> tolower(v[i])]

\* strstr(haystack, needle): the position of the first occurrence of needle
\* in haystack, 0 (NULL) when there is none.
RECURSIVE strstr_from(_, _, _)
strstr_from(haystack, needle, k) ==
    IF k + Len(needle) - 1 > Len(haystack) THEN 0
    ELSE IF SubSeq(haystack, k, k + Len(needle) - 1) = needle THEN k
    ELSE strstr_from(haystack, needle, k + 1)

strstr(haystack, needle) == strstr_from(haystack, needle, 1)

\* strdup(s): a fresh copy of s; NULL for NULL.  Allocation is taken to
\* succeed.
strdup(s) == s

\* clib_package_parse_name(slug): the short name of "owner/name", the whole
\* slug when it has no separator, NULL for NULL.
clib_package_parse_name(slug) ==
    IF slug = NULL THEN NULL
    ELSE IF \E k \in 1..Len(slug) : slug[k] = "/"
    THEN SubSeq(slug, (CHOOSE k \in 1..Len(slug) :
                          /\ slug[k] = "/"
                          /\ \A j \in 1..(k - 1) : slug[j] # "/") + 1, Len(slug))
    ELSE slug

wiki_package_get_repo(pkg) == pkg.repo

wiki_package_get_href(pkg) == pkg.href

wiki_package_get_description(pkg) == pkg.description

wiki_package_get_category(pkg) == pkg.category

\* json_object_set_string(object, key, value): an absent value is stored as
\* the empty string.
json_object_set_string(object, key, value) ==
    [object EXCEPT ![key] = IF value = NULL THEN <<>> ELSE value]

-----------------------------------------------------------------------------
(* matches() *)

\* COMPARE with the terms AND'd: a field hits only when it holds every term.
COMPARE_all_terms(v, count, args, st) ==
    IF st.cleanup THEN st
    ELSE IF NULL = v THEN [rc |-> 0, cleanup |-> TRUE]
    ELSE LET lowered == case_lower(v)
         IN  IF \A i \in 1..count : strstr(lowered, args[i]) # 0
             THEN [st EXCEPT !.rc = 1]
             ELSE st

\* COMPARE without the NULL test: an absent field is passed over.
COMPARE_skip_null(v, count, args, st) ==
    IF st.cleanup \/ NULL = v THEN st
    ELSE LET lowered == case_lower(v)
         IN  IF \E i \in 1..count : strstr(lowered, args[i]) # 0
             THEN [st EXCEPT !.rc = 1]
             ELSE st

\* COMPARE leaving matches() at the first hit (a goto cleanup for the break).
COMPARE_stop_at_hit(v, count, args, st) ==
    IF st.cleanup THEN st
    ELSE IF NULL = v THEN [rc |-> 0, cleanup |-> TRUE]
    ELSE LET lowered == case_lower(v)
         IN  IF \E i \in 1..count : strstr(lowered, args[i]) # 0
             THEN [rc |-> 1, cleanup |-> TRUE]
             ELSE st

\* COMPARE(v) at one field: st.rc is rc, st.cleanup says that control has
\* jumped to the cleanup label.  The break leaves only the loop over the
\* terms, so the fields after a hit are still compared.
COMPARE(v, count, args, st) ==
    IF st.cleanup THEN st
    ELSE IF NULL = v THEN [rc |-> 0, cleanup |-> TRUE]
    ELSE LET lowered == case_lower(v)
         IN  IF \E i \in 1..count : strstr(lowered, args[i]) # 0
             THEN [st EXCEPT !.rc = 1]
             ELSE st

\* matches() without the test for an empty query.
matches_no_empty_query(count, args, pkg) ==
    LET name        == clib_package_parse_name(wiki_package_get_repo(pkg))
        s1          == COMPARE(name, count, args, [rc |-> 0, cleanup |-> FALSE])
        description == strdup(wiki_package_get_description(pkg))
        s2          == COMPARE(description, count, args, s1)
        repo        == strdup(wiki_package_get_repo(pkg))
        s3          == COMPARE(repo, count, args, s2)
        href        == strdup(wiki_package_get_href(pkg))
        s4          == COMPARE(href, count, args, s3)
    IN  s4.rc

matches(count, args, pkg) ==
    IF 0 = count THEN 1
    ELSE LET name        == clib_package_parse_name(wiki_package_get_repo(pkg))
             s1          == COMPARE(name, count, args, [rc |-> 0, cleanup |-> FALSE])
             description == strdup(wiki_package_get_description(pkg))
             s2          == COMPARE(description, count, args, s1)
             repo        == strdup(wiki_package_get_repo(pkg))
             s3          == COMPARE(repo, count, args, s2)
             href        == strdup(wiki_package_get_href(pkg))
             s4          == COMPARE(href, count, args, s3)
         IN  s4.rc

-----------------------------------------------------------------------------
(* Rendering *)

display_package(pkg) ==
    [op          |-> "display_package",
     repo        |-> wiki_package_get_repo(pkg),
     href        |-> wiki_package_get_href(pkg),
     description |-> wiki_package_get_description(pkg)]

\* add_package_to_json storing the copy of repo that matches() lowercased.
add_package_to_json_lowered(pkg, list) ==
    LET o0 == [repo |-> <<>>, href |-> <<>>, description |-> <<>>, category |-> <<>>]
        o1 == json_object_set_string(o0, "repo",
                 IF wiki_package_get_repo(pkg) = NULL THEN NULL
                 ELSE case_lower(wiki_package_get_repo(pkg)))
        o2 == json_object_set_string(o1, "href", wiki_package_get_href(pkg))
        o3 == json_object_set_string(o2, "description", wiki_package_get_description(pkg))
        o4 == json_object_set_string(o3, "category", wiki_package_get_category(pkg))
    IN  [list EXCEPT !.items = Append(@, o4)]

add_package_to_json(pkg, list) ==
    LET o0 == [repo |-> <<>>, href |-> <<>>, description |-> <<>>, category |-> <<>>]
        o1 == json_object_set_string(o0, "repo", wiki_package_get_repo(pkg))
        o2 == json_object_set_string(o1, "href", wiki_package_get_href(pkg))
        o3 == json_object_set_string(o2, "description", wiki_package_get_description(pkg))
        o4 == json_object_set_string(o3, "category", wiki_package_get_category(pkg))
    IN  [list EXCEPT !.items = Append(@, o4)]

-----------------------------------------------------------------------------
(* main() *)

setopt_nocache == 0

setopt_json == 1

\* Lines 147-167: the defaults, then command_parse runs the setter of every
\* flag on the command line and leaves the positional arguments in
\* program.argv.
Main_Parse ==
    /\ pc = "main"
    /\ \E skip_cache \in BOOLEAN, json \in BOOLEAN, a \in SeqsUpTo(ArgVals, MaxArgs) :
          /\ opt_cache' = IF skip_cache THEN setopt_nocache ELSE 1
          /\ opt_json' = IF json THEN setopt_json ELSE opt_json
          /\ argv0' = a
          /\ program_argv' = a
    /\ pc' = "lower"
    /\ UNCHANGED <<cache, registry, fetch_ok, it, rcs, json_list, stdout,
                   exit_code, data, html, calls, netFetches, cacheReads>>

\* The arguments left as typed.
LowerArgs_none(argv) == argv

\* Lines 169-170.
LowerArgs(argv) == [i \in 1..Len(argv) |-> case_lower(argv[i])]

Main_Lower ==
    /\ pc = "lower"
    /\ program_argv' = LowerArgs(program_argv)
    /\ pc' = "fetch"
    /\ UNCHANGED <<opt_cache, opt_json, argv0, cache, registry, fetch_ok, it, rcs,
                   json_list, stdout, exit_code, data, html, calls, netFetches, cacheReads>>

\* wiki_registry_fetch(registry): a network request for the package list;
\* the packages it parsed, none when the request failed.
wiki_registry_fetch(ok, pkgs) == IF ok THEN pkgs ELSE <<>>

\* Lines 177-178: the registry is fetched over the network; what
\* wiki_registry_fetch returns is not looked at.
Main_Fetch ==
    /\ pc = "fetch"
    /\ \E ok \in BOOLEAN, pkgs \in SeqsUpTo(RegistryPackages, MaxPkgs) :
          /\ fetch_ok' = ok
          /\ registry' = wiki_registry_fetch(ok, pkgs)
          /\ ~ok => pkgs = <<>>
    /\ calls' = calls + 1
    /\ netFetches' = netFetches + 1
    /\ pc' = "begin"
    /\ UNCHANGED <<opt_cache, opt_json, argv0, program_argv, cache, it, rcs,
                   json_list, stdout, exit_code, data, html, cacheReads>>

\* Lines 193-204.
Main_Begin ==
    /\ pc = "begin"
    /\ it' = 0
    /\ json_list' = IF opt_json # 0 THEN [type |-> "array", items |-> <<>>]
                    ELSE JSON_NULL
    /\ stdout' = Append(stdout, [op |-> "printf", text |-> "\n"])
    /\ pc' = "loop"
    /\ UNCHANGED <<opt_cache, opt_json, argv0, program_argv, cache, registry,
                   fetch_ok, rcs, exit_code, data, html, calls, netFetches, cacheReads>>

\* Lines 206-216: one turn of the loop.
Main_Loop ==
    /\ pc = "loop"
    /\ it < Len(registry)
    /\ LET pkg == registry[it + 1]
           rc  == matches(Len(program_argv), program_argv, pkg)
       IN  /\ rcs' = Append(rcs, rc)
           /\ IF rc # 0
              THEN IF opt_json # 0
                   THEN /\ json_list' = add_package_to_json(pkg, json_list)
                        /\ UNCHANGED stdout
                   ELSE /\ stdout' = Append(stdout, display_package(pkg))
                        /\ UNCHANGED json_list
              ELSE UNCHANGED <<json_list, stdout>>
    /\ it' = it + 1
    /\ UNCHANGED <<pc, opt_cache, opt_json, argv0, program_argv, cache, registry,
                   fetch_ok, exit_code, data, html, calls, netFetches, cacheReads>>

\* Lines 206 (the iterator is exhausted) and 218-229.
Main_Finish ==
    /\ pc = "loop"
    /\ it = Len(registry)
    /\ stdout' = IF opt_json # 0
                 THEN Append(stdout, [op |-> "puts", json |-> json_list.items])
                 ELSE stdout
    /\ exit_code' = 0
    /\ pc' = "exit"
    /\ UNCHANGED <<opt_cache, opt_json, argv0, program_argv, cache, registry,
                   fetch_ok, it, rcs, json_list, data, html, calls, netFetches,
                   cacheReads>>

-----------------------------------------------------------------------------
(* wiki_html_cache() *)

\* wiki_html_cache reading the cache whenever there is an entry, opt_cache
\* or not.
wiki_html_cache_ignores_opt(read_ok, res, save_ok) ==
    LET has_search == cache # NULL
        reads      == has_search
        read       == IF reads /\ read_ok THEN cache ELSE NULL
    IN  /\ cacheReads' = IF reads THEN cacheReads + 1 ELSE cacheReads
        /\ data' = read
        /\ IF read # NULL
           THEN /\ html' = read
                /\ UNCHANGED <<netFetches, cache>>
           ELSE /\ netFetches' = netFetches + 1
                /\ IF res = NULL
                   THEN /\ html' = NULL
                        /\ UNCHANGED cache
                   ELSE /\ html' = strdup(res)
                        /\ cache' = IF save_ok THEN strdup(res) ELSE cache

\* One call, lines 95-120.  read_ok: clib_cache_read_search succeeds;
\* res: the body http_get obtains, NULL when the request fails;
\* save_ok: clib_cache_save_search manages to write.
wiki_html_cache(read_ok, res, save_ok) ==
    LET has_search == cache # NULL
        reads      == has_search /\ opt_cache # 0
        read       == IF reads /\ read_ok THEN cache ELSE NULL
    IN  /\ cacheReads' = IF reads THEN cacheReads + 1 ELSE cacheReads
        /\ data' = read
        /\ IF read # NULL
           THEN /\ html' = read
                /\ UNCHANGED <<netFetches, cache>>
           ELSE /\ netFetches' = netFetches + 1
                /\ IF res = NULL
                   THEN /\ html' = NULL
                        /\ UNCHANGED cache
                   ELSE /\ html' = strdup(res)
                        /\ cache' = IF save_ok THEN strdup(res) ELSE cache

Call_wiki_html_cache ==
    /\ pc = "wiki_html_cache"
    /\ calls < MaxCalls
    /\ \E read_ok \in BOOLEAN, res \in {NULL} \cup WikiPayloads, save_ok \in BOOLEAN :
          wiki_html_cache(read_ok, res, save_ok)
    /\ calls' = calls + 1
    /\ UNCHANGED <<pc, opt_cache, opt_json, argv0, program_argv, registry, fetch_ok,
                   it, rcs, json_list, stdout, exit_code>>

-----------------------------------------------------------------------------
(* matches() called on its own *)

Call_matches ==
    /\ pc = "matches"
    /\ rcs' = <<matches(Len(program_argv), program_argv, registry[1])>>
    /\ it' = 1
    /\ pc' = "matched"
    /\ UNCHANGED <<opt_cache, opt_json, argv0, program_argv, cache, registry,
                   fetch_ok, json_list, stdout, exit_code, data, html, calls,
                   netFetches, cacheReads>>

-----------------------------------------------------------------------------
(* The specification *)

\* The statics are zero until main sets them; matches() gets the terms
\* already lowercased and one record.
Init ==
    /\ pc \in {"main", "matches", "wiki_html_cache"}
    /\ opt_cache \in IF pc = "wiki_html_cache" THEN {0, 1} ELSE {0}
    /\ opt_json = 0
    /\ program_argv \in IF pc = "matches" THEN SeqsUpTo(Terms, MaxArgs) ELSE {<<>>}
    /\ argv0 = program_argv
    /\ cache \in IF pc = "matches" THEN {NULL} ELSE {NULL} \cup CachePayloads
    /\ registry \in IF pc = "matches" THEN {<<p>> : p \in Packages} ELSE {<<>>}
    /\ fetch_ok = FALSE
    /\ it = 0
    /\ rcs = <<>>
    /\ json_list = JSON_NULL
    /\ stdout = <<>>
    /\ exit_code = -1
    /\ data = NULL
    /\ html = NULL
    /\ calls = 0
    /\ netFetches = 0
    /\ cacheReads = 0

Next ==
    \/ Main_Parse
    \/ Main_Lower
    \/ Main_Fetch
    \/ Main_Begin
    \/ Main_Loop
    \/ Main_Finish
    \/ Call_matches
    \/ Call_wiki_html_cache

Spec == Init /\ [][Next]_vars

-----------------------------------------------------------------------------
(* Vocabulary of the properties *)

\* t occurs in s as a run of consecutive characters.
Contains(s, t) ==
    \E k \in 0..(Len(s) - Len(t)) : \A j \in 1..Len(t) : s[k + j] = t[j]

\* The four fields matches() looks at, in the order it looks at them.
ScanFields(pkg) ==
    <<clib_package_parse_name(pkg.repo), pkg.description, pkg.repo, pkg.href>>

AllPresent(pkg) == \A k \in 1..4 : ScanFields(pkg)[k] # NULL

\* Field k is present and holds one of the terms.
Hit(pkg, k, terms) ==
    /\ ScanFields(pkg)[k] # NULL
    /\ \E t \in 1..Len(terms) : Contains(case_lower(ScanFields(pkg)[k]), terms[t])

\* The scan gets as far as field k: no field before it is absent.
Reached(pkg, k) == \A j \in 1..(k - 1) : ScanFields(pkg)[j] # NULL

UpperOf ==
    [c \in {LowerLetters[i] : i \in 1..Len(LowerLetters)} |->
        UpperLetters[CHOOSE i \in 1..Len(LowerLetters) : LowerLetters[i] = c]]

toupper(c) == IF c \in DOMAIN UpperOf THEN UpperOf[c] ELSE c

case_upper(v) == [i \in 1..Len(v) |-> toupper(v[i])]

\* The arguments with those at the positions in S typed in upper case.
UpperSome(argv, S) ==
    [i \in 1..Len(argv) |-> IF i \in S THEN case_upper(argv[i]) ELSE argv[i]]

\* The records among the first n yielded for which matches() said yes.
RECURSIVE Matched(_)
Matched(n) ==
    IF n = 0 THEN <<>>
    ELSE IF rcs[n] # 0 THEN Append(Matched(n - 1), registry[n])
    ELSE Matched(n - 1)

JsonKeys == {"repo", "href", "description", "category"}

InMain == pc \in {"main", "lower", "fetch", "begin", "loop", "exit"}

-----------------------------------------------------------------------------
(* Properties *)

\* C1: with a non-empty query and a record whose short name, description,
\* repo and href are all present, matches() returns true exactly when some
\* term occurs in some one of the four lowercased fields.
C1_AnyTermInAnyField ==
    \A i \in 1..Len(rcs) :
        (Len(program_argv) > 0 /\ AllPresent(registry[i]))
            => ((rcs[i] = 1) <=> \E k \in 1..4 : Hit(registry[i], k, program_argv))

\* C1 witness: two terms, all fields present, a match that only the second
\* term gives and only the href holds.
C1_Witness ==
    /\ Len(rcs) = 1
    /\ Len(program_argv) = 2
    /\ AllPresent(registry[1])
    /\ rcs[1] = 1
    /\ \A k \in 1..4 : ~Hit(registry[1], k, <<program_argv[1]>>)
    /\ \A k \in 1..3 : ~Hit(registry[1], k, program_argv)
    /\ Hit(registry[1], 4, program_argv)

\* C2: with a non-empty query, a record with any of the four fields absent
\* does not match, also when a term was found in a field scanned earlier.
C2_AbsentFieldNeverMatches ==
    \A i \in 1..Len(rcs) :
        (Len(program_argv) > 0 /\ ~AllPresent(registry[i])) => rcs[i] = 0

\* C2 witness: a term is in the short name, the href is absent, and
\* matches() returned false.
C2_Witness ==
    /\ Len(rcs) >= 1
    /\ Len(program_argv) > 0
    /\ Hit(registry[1], 1, program_argv)
    /\ registry[1].description # NULL
    /\ registry[1].href = NULL
    /\ rcs[1] = 0

\* C3: with an empty query matches() returns true for every record, the
\* records with absent fields included.
C3_EmptyQueryMatchesAll ==
    \A i \in 1..Len(rcs) : Len(program_argv) = 0 => rcs[i] = 1

\* C3 witness: an empty query and a record with no repo (so no short name
\* either), and matches() returned true.
C3_Witness ==
    /\ Len(rcs) >= 1
    /\ Len(program_argv) = 0
    /\ registry[1].repo = NULL
    /\ registry[1].description = NULL
    /\ rcs[1] = 1

\* C4: typing any of the arguments of a run of main in upper case gives the
\* same result for every record of the finished run.
C4_CaseInsensitiveRun ==
    pc = "exit" =>
        \A i \in 1..Len(rcs) : \A S \in SUBSET (1..Len(argv0)) :
            rcs[i] = matches(Len(argv0), LowerArgs(UpperSome(argv0, S)), registry[i])

\* C4 witness: a finished run whose argument was typed in mixed case and is
\* the one that makes a record match.
C4_Witness ==
    /\ pc = "exit"
    /\ argv0 = <<<<"d", "X">>>>
    /\ Len(rcs) >= 1
    /\ rcs[1] = 1
    /\ case_upper(argv0[1]) # argv0[1]
    /\ program_argv # argv0

\* C5: a run whose registry fetch failed ends with a non-zero exit code and
\* has written no package block and no JSON; exit code 0 means the fetch
\* succeeded.
C5_FetchFailureExitsNonZero ==
    pc = "exit" =>
        /\ ~fetch_ok =>
              /\ exit_code # 0
              /\ \A k \in 1..Len(stdout) : stdout[k].op = "printf"
        /\ exit_code = 0 => fetch_ok

\* C6: in JSON mode the serialized array is all that standard output gets:
\* nothing before the end of the iteration, the array alone after it.
C6_JsonIsSoleOutput ==
    (InMain /\ opt_json # 0) =>
        IF pc = "exit"
        THEN stdout = <<[op |-> "puts", json |-> json_list.items]>>
        ELSE stdout = <<>>

\* C7: in JSON mode the array holds one object for each record matches()
\* accepted, in the order the iterator yielded them, and every field a
\* record has is in its object as the record has it, not lowercased.
C7_JsonHoldsMatchedVerbatim ==
    json_list.type = "array" =>
        LET want == Matched(Len(rcs))
        IN  /\ Len(json_list.items) = Len(want)
            /\ \A k \in 1..Len(want) : \A key \in JsonKeys :
                   want[k][key] # NULL => json_list.items[k][key] = want[k][key]

\* C7 witness: a finished JSON run with a query, two different records both
\* matched, the first with upper-case letters in its repo.
C7_Witness ==
    /\ pc = "exit"
    /\ opt_json # 0
    /\ Len(program_argv) > 0
    /\ Len(registry) >= 2
    /\ registry[1] # registry[2]
    /\ rcs[1] = 1 /\ rcs[2] = 1
    /\ case_lower(registry[1].repo) # registry[1].repo
    /\ stdout[Len(stdout)] = [op |-> "puts", json |-> json_list.items]

\* C8: with caching disabled every fetch attempt, the registry fetch of main
\* and a call of wiki_html_cache() alike, goes to the network and the cache
\* entry is never read.
C8_NoCacheAlwaysFetches ==
    opt_cache = 0 => (cacheReads = 0 /\ netFetches = calls)

\* C8 witness: wiki_html_cache() was called with caching disabled while a
\* cache entry existed.
C8_Witness ==
    /\ pc = "wiki_html_cache"
    /\ opt_cache = 0
    /\ cache \in CachePayloads
    /\ calls = 1
    /\ netFetches = 1
    /\ cacheReads = 0

\* C9: a run with caching enabled and a cache entry in place has read the
\* cache and issued no network fetch.
C9_CachedRunIssuesNoFetch ==
    (pc = "exit" /\ opt_cache # 0 /\ cache # NULL)
        => (cacheReads > 0 /\ netFetches = 0)

\* C10 as stated: once a term is found in a field the scan reaches, the
\* result is true whatever the later fields are.
C10_FirstHitDecides ==
    \A i \in 1..Len(rcs) : \A k \in 1..4 :
        (/\ Len(program_argv) > 0
         /\ Reached(registry[i], k)
         /\ Hit(registry[i], k, program_argv)) => rcs[i] = 1

\* C10 amended: a hit does not end the scan; after a term is found in a
\* field the later fields are still looked at, and the result is true
\* exactly when none of them is absent.
C10_HitThenLaterFieldsPresent ==
    \A i \in 1..Len(rcs) : \A k \in 1..4 :
        (/\ Len(program_argv) > 0
         /\ Reached(registry[i], k)
         /\ Hit(registry[i], k, program_argv))
            => ((rcs[i] = 1) <=> \A j \in (k + 1)..4 : ScanFields(registry[i])[j] # NULL)

\* C10 witness: a term is in the description, the second field scanned, the
\* href is absent, and the result is false.
C10_Witness ==
    /\ Len(rcs) = 1
    /\ Len(program_argv) > 0
    /\ Reached(registry[1], 2)
    /\ ~Hit(registry[1], 1, program_argv)
    /\ Hit(registry[1], 2, program_argv)
    /\ registry[1].href = NULL
    /\ rcs[1] = 0

====
